---- MODULE Spec2Model ----
(***************************************************************************)
(* count_distinct: a sort-based distinct-element accumulator (PostgreSQL   *)
(* aggregate).  The model follows src/count_distinct.c (ver = "new") and   *)
(* the older src/src/count_distinct.c (ver = "old"), whose compact_set     *)
(* returns early when nothing is pending, always doubles and uses palloc0, *)
(* and which has no serial, deserial or combine function.                  *)
(*                                                                         *)
(* A Datum is the sequence of its SizeofDatum bytes, lowest address first; *)
(* a record (one stored value) is the sequence of the item_size bytes      *)
(* copied from the Datum; records are compared as memcmp compares them.    *)
(* The data array is a sequence of slots, slot k (1-based) holding the     *)
(* record at byte offset (k-1)*item_size; a slot never written since its   *)
(* allocation holds Uninit.  Sizes stay far below 2^32 within the bounds,  *)
(* so uint32 arithmetic is plain arithmetic here.                          *)
(***************************************************************************)
EXTENDS Integers, Sequences, FiniteSets, TLC

\* ------------------------------------------------------------ constants
ARRAY_INIT_SIZE == 32

ALLOCSET_SEPARATE_THRESHOLD == 8192

\* sizeof(uint32) and sizeof(MemoryContext) (a pointer, LP64)
U32Size == 4

PtrSize == 8

\* sizeof(Datum)
SizeofDatum == 8

\* content of a slot of palloc'ed memory that was never written
Uninit == <<>>

\* ------------------------------------------------------------ bounds
\* number of non-null values appended in one behaviour of SpecSeq
MaxAppends == 5

\* number of calls that append a value, serialize or combine in one behaviour
\* of Spec
MaxCalls == 4

\* SpecTree: calls that append or combine
MaxTreeCalls == 3

\* SpecWire: calls that append or serialize
MaxWireCalls == 3

\* SpecMixed: calls that append or combine
MaxMixedCalls == 4

\* SpecDirect: appends
MaxDirectAppends == 3

\* SpecRoom: calls that append, serialize or combine
MaxRoomCalls == 4

\* SpecExact: calls that append, serialize or combine
MaxExactCalls == 5

\* SpecElems: transition calls that are given a value or an array, and the
\* number of elements of an array
MaxElemCalls == 3

MaxArrayLen == 2

\* SpecEntry: calls that append, serialize or combine
MaxEntryCalls == 3

\* SpecWidth: appends to the set
MaxWidthAppends == 6

\* SpecLarge: the worker sent between MinLargeRecords and MaxLargeRecords
\* records, and the leader makes at most MaxLargeAppends appends
MinLargeRecords == 3272
MaxLargeRecords == 3281
MaxLargeAppends == 2

\* ------------------------------------------------------------ inputs
\* by-value type widths of the aggregated column
ItemSizes == {4, 8}

\* all the lengths a by-value type can have
AllItemSizes == {1, 2, 4, 8}

\* the Datum of a small integer: low byte lo, next byte hi, the rest zero
\* (a little-endian machine)
Int16Datum(lo, hi) == [k \in 1..SizeofDatum |-> IF k = 1 THEN lo ELSE IF k = 2 THEN hi ELSE 0]

\* Datums appended: 1, 2, 3 and 256; memcmp order is 256 < 1 < 2 < 3
Values == {Int16Datum(1, 0), Int16Datum(2, 0), Int16Datum(3, 0), Int16Datum(0, 1)}

\* Datums appended in Spec
ParValues == {Int16Datum(1, 0), Int16Datum(2, 0), Int16Datum(0, 1)}

\* the byte a read of never-written memory may yield
JunkBytes == {0, 255}

Slots == {"A", "B"}

\* an array element that is NULL (its bit in the null bitmap is not set)
NullElement == <<>>

\* the elements of the arrays given to count_distinct_elements_append
ArrayElements == {NullElement, Int16Datum(1, 0), Int16Datum(0, 1)}

\* the arrays: empty, with NULL elements only, with values and NULLs
Arrays == UNION {[1..n -> ArrayElements] : n \in 0..MaxArrayLen}

\* ------------------------------------------------------------ memcmp
RECURSIVE MemcmpAt(_, _, _, _)
MemcmpAt(a, b, i, n) ==
    IF i > n THEN 0
    ELSE IF a[i] < b[i] THEN -1
    ELSE IF a[i] > b[i] THEN 1
    ELSE MemcmpAt(a, b, i + 1, n)

memcmp(a, b, n) == MemcmpAt(a, b, 1, n)

compare_items(a, b, size) == memcmp(a, b, size)

\* memcpy of the record r to slot k (1-based) of data
MemcpyTo(data, k, r) == [j \in 1..Len(data) |-> IF j = k THEN r ELSE data[j]]

\* the item_size low-address bytes of a Datum, as add_element copies them
DatumBytes(v, n) == SubSeq(v, 1, n)

\* a record copied into a zeroed Datum, as build_array does
RecordDatum(r) == [k \in 1..SizeofDatum |-> IF k <= Len(r) THEN r[k] ELSE 0]

\* ------------------------------------------------------------ qsort_arg
\* mutant: the item is put first, whatever it compares to
InsertSorted_first(v, s, n) == <<v>> \o s

RECURSIVE InsertSorted(_, _, _)
InsertSorted(v, s, n) ==
    IF s = <<>> THEN <<v>>
    ELSE IF compare_items(v, Head(s), n) <= 0 THEN <<v>> \o s
    ELSE <<Head(s)>> \o InsertSorted(v, Tail(s), n)

RECURSIVE qsort_arg(_, _)
qsort_arg(s, n) ==
    IF s = <<>> THEN <<>>
    ELSE InsertSorted(Head(s), qsort_arg(Tail(s), n), n)

\* n slots of fresh memory
Fresh(n) == [k \in 1..n |-> Uninit]

\* ------------------------------------------------------------ init_set
init_set(item_size, typalign, ctx) ==
    [item_size |-> item_size,
     typalign  |-> typalign,
     nsorted   |-> 0,
     nall      |-> 0,
     nbytes    |-> ARRAY_INIT_SIZE,
     aggctx    |-> ctx,
     data      |-> Fresh(ARRAY_INIT_SIZE \div item_size)]

\* ------------------------------------------------------------ compact_set
\* the sort of the unsorted part, in place
SortPending(e) ==
    LET s == qsort_arg(SubSeq(e.data, e.nsorted + 1, e.nall), e.item_size)
    IN  [k \in 1..Len(e.data) |->
            IF k > e.nsorted /\ k <= e.nall THEN s[k - e.nsorted] ELSE e.data[k]]

\* the duplicate-removal loop: slots are 0-based here as in the C pointers,
\* base/last/curr are slot numbers, data[x + 1] is the record at slot x
RECURSIVE DedupLoop(_, _, _, _, _, _, _)
DedupLoop(data, base, i, npend, last, cnt, n) ==
    IF i >= npend THEN [data |-> data, cnt |-> cnt]
    ELSE IF memcmp(data[last + 1], data[base + i + 1], n) # 0
    THEN DedupLoop(IF last + 1 # base + i
                   THEN MemcpyTo(data, last + 2, data[base + i + 1])
                   ELSE data,
                   base, i + 1, npend, last + 1, cnt + 1, n)
    ELSE DedupLoop(data, base, i + 1, npend, last, cnt, n)

\* the set once the loop has ended with dd: nall updated, and nsorted too when
\* there was no sorted part
AfterDedup(e, dd) ==
    [e EXCEPT !.data = dd.data,
              !.nall = e.nsorted + dd.cnt,
              !.nsorted = IF e.nsorted = 0 THEN e.nsorted + dd.cnt ELSE e.nsorted]

\* sort and duplicate removal, when there are unsorted items
DedupStep(e) ==
    IF e.nall > e.nsorted
    THEN AfterDedup(e, DedupLoop(SortPending(e), e.nsorted, 1, e.nall - e.nsorted,
                                 e.nsorted, 1, e.item_size))
    ELSE e

\* mutant: on equal heads only the sorted part advances, so the record is
\* emitted twice
RECURSIVE MergeLoop_twice(_, _, _, _, _, _, _)
MergeLoop_twice(src, a, b, amax, bmax, out, n) ==
    LET r    == memcmp(src[a + 1], src[b + 1], n)
        a2   == IF r <= 0 THEN a + 1 ELSE a
        b2   == IF r > 0 THEN b + 1 ELSE b
        out2 == Append(out, IF r <= 0 THEN src[a + 1] ELSE src[b + 1])
    IN  IF (a2 = amax) \/ (b2 = bmax)
        THEN [out   |-> IF a2 # amax THEN out2 \o SubSeq(src, a2 + 1, amax)
                        ELSE IF b2 # bmax THEN out2 \o SubSeq(src, b2 + 1, bmax)
                        ELSE out2,
              a     |-> a2,
              b     |-> b2,
              iters |-> Len(out2)]
        ELSE MergeLoop_twice(src, a2, b2, amax, bmax, out2, n)

\* the merge loop of the sorted part [a, amax) and the new part [b, bmax):
\* the merged records, where a and b stood when the loop was left, and the
\* number of iterations made (each appends one record to out)
RECURSIVE MergeLoop(_, _, _, _, _, _, _)
MergeLoop(src, a, b, amax, bmax, out, n) ==
    LET r    == memcmp(src[a + 1], src[b + 1], n)
        a2   == IF r <= 0 THEN a + 1 ELSE a
        b2   == IF r >= 0 THEN b + 1 ELSE b
        out2 == Append(out, IF r <= 0 THEN src[a + 1] ELSE src[b + 1])
    IN  IF (a2 = amax) \/ (b2 = bmax)
        THEN [out   |-> IF a2 # amax THEN out2 \o SubSeq(src, a2 + 1, amax)
                        ELSE IF b2 # bmax THEN out2 \o SubSeq(src, b2 + 1, bmax)
                        ELSE out2,
              a     |-> a2,
              b     |-> b2,
              iters |-> Len(out2)]
        ELSE MergeLoop(src, a2, b2, amax, bmax, out2, n)

\* mutant: the merged array is not marked as sorted
AfterMerge_unsorted(e, out, rest) ==
    [e EXCEPT !.data = [k \in 1..Len(e.data) |-> IF k <= Len(out) THEN out[k] ELSE rest],
              !.nsorted = 0,
              !.nall = Len(out)]

\* the set once the merge has produced out in a new array of nbytes bytes whose
\* other slots hold rest
AfterMerge(e, out, rest) ==
    [e EXCEPT !.data = [k \in 1..Len(e.data) |-> IF k <= Len(out) THEN out[k] ELSE rest],
              !.nsorted = Len(out),
              !.nall = Len(out)]

\* the merge, when a sorted part and a new part are both there
MergeStep(e) ==
    IF e.nsorted < e.nall
    THEN AfterMerge(e, MergeLoop(e.data, 0, e.nsorted, e.nsorted, e.nall, <<>>,
                                 e.item_size).out, Uninit)
    ELSE e

\* mutant: the array always counts as low on space
LowOnSpace_always(nbytes, nall, item_size) == TRUE

\* free_fract < ARRAY_FREE_FRACT, with ARRAY_FREE_FRACT = 0.2 = 1/5
LowOnSpace(nbytes, nall, item_size) ==
    5 * (nbytes - nall * item_size) < nbytes

\* the enlarged array size
GrownSize(nbytes) ==
    IF nbytes * 5 < ALLOCSET_SEPARATE_THRESHOLD * 4
    THEN nbytes * 2
    ELSE (nbytes * 5) \div 4

\* mutant: the old bytes are not carried over, every old slot gets the first
\* record
Repalloc_first(data, nslots) ==
    [k \in 1..nslots |-> IF k <= Len(data) THEN data[1] ELSE Uninit]

\* repalloc: the old bytes, then fresh memory
Repalloc(data, nslots) ==
    [k \in 1..nslots |-> IF k <= Len(data) THEN data[k] ELSE Uninit]

\* the array enlarged to nbytes
Enlarged(e, nbytes) ==
    [e EXCEPT !.nbytes = nbytes, !.data = Repalloc(e.data, nbytes \div e.item_size)]

\* mutant: the array is never enlarged
GrowStep_never(e, need_space) == e

\* the growth check at the end of compact_set
GrowStep(e, need_space) ==
    IF need_space /\ LowOnSpace(e.nbytes, e.nall, e.item_size)
    THEN Enlarged(e, GrownSize(e.nbytes))
    ELSE e

\* the Asserts at the entry of compact_set that do not hold
EntryAsserts(e) ==
    (IF e.nall > 0 THEN {} ELSE {"compact_set: nall > 0"})
    \cup (IF e.nsorted <= e.nall THEN {} ELSE {"compact_set: nsorted <= nall"})
    \cup (IF e.nall * e.item_size <= e.nbytes THEN {}
          ELSE {"compact_set: nall * item_size <= nbytes"})

\* what compact_set did: e at entry, d after the duplicate removal, m after the
\* merge; the set afterwards, the Asserts that failed, and whether the merge
\* ran (it switches to eset->aggctx to allocate)
Compacted(e, d, m, need_space) ==
    [eset   |-> GrowStep(m, need_space),
     fail   |-> EntryAsserts(e)
                \cup (IF m.nall = m.nsorted THEN {} ELSE {"compact_set: nall == nsorted"}),
     ctxuse |-> d.nsorted < d.nall]

CompactFrom(e, d, need_space) == Compacted(e, d, MergeStep(d), need_space)

compact_set(e, need_space) == CompactFrom(e, DedupStep(e), need_space)

\* ------------------------------------------------------------ add_element
\* mutant: the value is stored but not counted
StoreElement_uncounted(c, value) ==
    [eset   |-> [c.eset EXCEPT
                    !.data = IF c.eset.nall + 1 <= Len(c.eset.data)
                             THEN MemcpyTo(c.eset.data, c.eset.nall + 1,
                                           DatumBytes(value, c.eset.item_size))
                             ELSE c.eset.data],
     fail   |-> c.fail,
     ctxuse |-> c.ctxuse]

\* the copy of the value to slot nall, c being what the compaction (if any) did
StoreElement(c, value) ==
    [eset   |-> [c.eset EXCEPT
                    !.nall = c.eset.nall + 1,
                    !.data = IF c.eset.nall + 1 <= Len(c.eset.data)
                             THEN MemcpyTo(c.eset.data, c.eset.nall + 1,
                                           DatumBytes(value, c.eset.item_size))
                             ELSE c.eset.data],
     fail   |-> c.fail
                \cup (IF c.eset.nbytes >= c.eset.item_size * (c.eset.nall + 1) THEN {}
                      ELSE {"add_element: nbytes >= item_size * (nall + 1)"}),
     ctxuse |-> c.ctxuse]

NotCompacted(e) == [eset |-> e, fail |-> {}, ctxuse |-> FALSE]

\* mutant: every append compacts first
add_element_compacting(e, value) == StoreElement(compact_set(e, TRUE), value)

add_element(e, value) ==
    StoreElement(IF e.item_size * (e.nall + 1) > e.nbytes
                 THEN compact_set(e, TRUE)
                 ELSE NotCompacted(e),
                 value)

\* ------------------------------------------------------------ older source
\* a record of palloc0'ed memory
Zeroed(n) == [k \in 1..n |-> 0]

\* src/src/count_distinct.c: palloc0 instead of palloc
init_set_old(item_size, ctx) ==
    [item_size |-> item_size,
     typalign  |-> "none",
     nsorted   |-> 0,
     nall      |-> 0,
     nbytes    |-> ARRAY_INIT_SIZE,
     aggctx    |-> ctx,
     data      |-> [k \in 1..(ARRAY_INIT_SIZE \div item_size) |-> Zeroed(item_size)]]

\* the merge of the older source: the new array is zeroed
MergeStep_old(e) ==
    IF e.nsorted < e.nall
    THEN AfterMerge(e, MergeLoop(e.data, 0, e.nsorted, e.nsorted, e.nall, <<>>,
                                 e.item_size).out, Zeroed(e.item_size))
    ELSE e

\* the growth of the older source: the array doubles
GrowStep_old(e, need_space) ==
    IF need_space /\ LowOnSpace(e.nbytes, e.nall, e.item_size)
    THEN Enlarged(e, e.nbytes * 2)
    ELSE e

EntryAsserts_old(e) ==
    (IF e.nsorted + e.nall > 0 THEN {} ELSE {"compact_set: nsorted + nall > 0"})
    \cup (EntryAsserts(e) \ {"compact_set: nall > 0"})

Compacted_old(e, d, need_space) ==
    [eset   |-> GrowStep_old(MergeStep_old(d), need_space),
     fail   |-> EntryAsserts_old(e),
     ctxuse |-> d.nsorted < d.nall]

\* compact_set of the older source: it returns at once, before the growth
\* check, when no item is unsorted
compact_set_old(e, need_space) ==
    IF e.nall = e.nsorted
    THEN [eset |-> e, fail |-> EntryAsserts_old(e), ctxuse |-> FALSE]
    ELSE Compacted_old(e, DedupStep(e), need_space)

add_element_old(e, value) ==
    StoreElement(IF e.item_size * (e.nall + 1) > e.nbytes
                 THEN compact_set_old(e, TRUE)
                 ELSE NotCompacted(e),
                 value)

\* ------------------------------------------------------------ final functions
\* the nsorted records as Datums (each record copied into a zeroed Datum), c
\* being what the compaction did
DatumArray(c) ==
    [eset   |-> c.eset,
     arr    |-> [i \in 1..c.eset.nsorted |-> RecordDatum(c.eset.data[i])],
     fail   |-> c.fail,
     ctxuse |-> c.ctxuse]

\* build_array: compaction, then the array of Datums
build_array(e) == DatumArray(compact_set(e, FALSE))

\* array_agg_distinct of the older source, on a state that is not NULL
array_agg_distinct_old(e) == DatumArray(compact_set_old(e, FALSE))

NallOf(c) ==
    [eset |-> c.eset, count |-> c.eset.nall, fail |-> c.fail, ctxuse |-> c.ctxuse]

\* count_distinct on a state that is not NULL: compaction, then nall
count_distinct(e) == NallOf(compact_set(e, FALSE))

count_distinct_old(e) == NallOf(compact_set_old(e, FALSE))

\* ------------------------------------------------------------ element_set_t
\* the members of element_set_t in declaration order: name, size, alignment
StructMembers ==
    << <<"item_size", U32Size, U32Size>>,
       <<"nsorted",   U32Size, U32Size>>,
       <<"nall",      U32Size, U32Size>>,
       <<"nbytes",    U32Size, U32Size>>,
       <<"typalign",  1,       1>>,
       <<"aggctx",    PtrSize, PtrSize>>,
       <<"data",      PtrSize, PtrSize>> >>

AlignUp(off, al) == ((off + al - 1) \div al) * al

\* offset of the k-th member (the C layout rule)
RECURSIVE MemberOffset(_)
MemberOffset(k) ==
    IF k = 1 THEN 0
    ELSE AlignUp(MemberOffset(k - 1) + StructMembers[k - 1][2], StructMembers[k][3])

\* offsetof(element_set_t, data)
OffsetofData ==
    MemberOffset(CHOOSE k \in 1..Len(StructMembers) : StructMembers[k][1] = "data")

\* the members that lie within the first hlen bytes of the struct
MembersWithin(hlen) ==
    {StructMembers[k][1] : k \in {j \in 1..Len(StructMembers) :
        MemberOffset(j) + StructMembers[j][2] <= hlen}}

\* ------------------------------------------------------------ serial / deserial
\* the bytea: its length (without the varlena header), the struct members
\* copied and the records copied; c is what the compaction did
Serialized(c, hlen) ==
    [eset   |-> c.eset,
     out    |-> [len  |-> c.eset.nall * c.eset.item_size + hlen,
                 hdr  |-> [f \in MembersWithin(hlen) |-> c.eset[f]],
                 data |-> SubSeq(c.eset.data, 1, c.eset.nall)],
     fail   |-> c.fail
                \cup (IF c.eset.nall > 0 THEN {} ELSE {"serial: nall > 0"})
                \cup (IF c.eset.nall = c.eset.nsorted THEN {}
                      ELSE {"serial: nall == nsorted"}),
     ctxuse |-> c.ctxuse]

count_distinct_serial(e) == Serialized(compact_set(e, FALSE), OffsetofData)

\* the struct after the header was copied over it: a member outside the header
\* keeps what palloc left there
HeaderCopied(st, hlen) ==
    [f \in {"item_size", "nsorted", "nall", "nbytes", "typalign", "aggctx"}
        |-> IF f \in MembersWithin(hlen) /\ f \in DOMAIN st.hdr
            THEN st.hdr[f] ELSE "uninit"]

\* mutant: every record slot gets the first record of the stream
Deserialized_first(st, h, hlen) ==
    [eset |-> [item_size |-> h.item_size,
               nsorted   |-> h.nsorted,
               nall      |-> h.nall,
               nbytes    |-> h.nall * h.item_size,
               typalign  |-> h.typalign,
               aggctx    |-> h.aggctx,
               data      |-> [k \in 1..h.nall |-> st.data[1]]],
     fail |-> {}]

\* h is the struct with the header copied; nbytes and data are set from it
Deserialized(st, h, hlen) ==
    [eset |-> [item_size |-> h.item_size,
               nsorted   |-> h.nsorted,
               nall      |-> h.nall,
               nbytes    |-> h.nall * h.item_size,
               typalign  |-> h.typalign,
               aggctx    |-> h.aggctx,
               data      |-> [k \in 1..h.nall |->
                                 IF k <= Len(st.data) THEN st.data[k] ELSE Uninit]],
     fail |-> (IF st.len > 0 THEN {} ELSE {"deserial: len > 0"})
              \cup (IF h.nall > 0 /\ h.nall = h.nsorted THEN {}
                    ELSE {"deserial: nall > 0 && nall == nsorted"})
              \cup (IF st.len = hlen + h.nall * h.item_size THEN {}
                    ELSE {"deserial: len == hlen + nall * item_size"})]

count_distinct_deserial(st) ==
    Deserialized(st, HeaderCopied(st, OffsetofData), OffsetofData)

\* ------------------------------------------------------------ combine
\* a read of the record at slot p (0-based) of an array: never-written memory,
\* or memory past the slots modelled, yields n bytes junk
ReadSlot(data, p, n, junk) ==
    IF p + 1 <= Len(data) /\ data[p + 1] # Uninit THEN data[p + 1]
    ELSE [k \in 1..n |-> junk]

\* a read of n bytes at byte offset off of an array whose records are w bytes
\* wide; never-written memory, or memory past the array, yields junk
ReadAt(data, w, off, n, junk) ==
    [k \in 1..n |->
        IF ((off + k - 1) \div w) + 1 <= Len(data)
           /\ data[((off + k - 1) \div w) + 1] # Uninit
        THEN data[((off + k - 1) \div w) + 1][((off + k - 1) % w) + 1]
        ELSE junk]

\* mutant: while both arrays have elements left, *ptr1 is taken without a
\* comparison
Pick_first(d1, d2, end1, end2, n, n2, ptr1, ptr2, junk) ==
    IF ptr1 * n < end1 /\ ptr2 < end2 THEN 1
    ELSE IF ptr1 * n < end1 THEN 1
    ELSE IF ptr2 < end2 THEN 3
    ELSE 0

\* mutant: an element is picked only while both arrays have elements left
Pick_both(d1, d2, end1, end2, n, n2, ptr1, ptr2, junk) ==
    IF ptr1 * n < end1 /\ ptr2 < end2
    THEN IF memcmp(ReadSlot(d1, ptr1, n, junk), ReadAt(d2, n2, ptr2, n, junk), n) <= 0
         THEN 1 ELSE 2
    ELSE 0

\* the element the merge loop of count_distinct_combine picks: 1 for *ptr1,
\* 2 for *ptr2 when both arrays have elements left, 3 for *ptr2 when only the
\* second has, 0 for neither (elog(ERROR, "unexpected"))
Pick(d1, d2, end1, end2, n, n2, ptr1, ptr2, junk) ==
    IF ptr1 * n < end1 /\ ptr2 < end2
    THEN IF memcmp(ReadSlot(d1, ptr1, n, junk), ReadAt(d2, n2, ptr2, n, junk), n) <= 0
         THEN 1 ELSE 2
    ELSE IF ptr1 * n < end1 THEN 1
    ELSE IF ptr2 < end2 THEN 3
    ELSE 0

\* the merge loop; ptr1 is a slot number of eset1->data, ptr2 a byte offset
\* into eset2->data, end1/end2 the byte lengths eset->nbytes the loop compares
\* them with, n and n2 the item_size of eset1 and of eset2
RECURSIVE CombineLoop(_, _, _, _, _, _, _, _, _, _, _, _, _)
RECURSIVE CombineStep(_, _, _, _, _, _, _, _, _, _, _, _, _, _)
CombineLoop(d1, d2, end1, end2, n, n2, i, total, ptr1, ptr2, out, fail, junk) ==
    IF i >= total
    THEN [out |-> out, ptr1 |-> ptr1, ptr2 |-> ptr2, fail |-> fail, error |-> ""]
    ELSE CombineStep(d1, d2, end1, end2, n, n2, i, total, ptr1, ptr2, out, fail, junk,
                     Pick(d1, d2, end1, end2, n, n2, ptr1, ptr2, junk))

\* one iteration, which being what Pick picked; ptr2 advances by the
\* item_size of eset1 in the two-array branch and by that of eset2 in the last
CombineStep(d1, d2, end1, end2, n, n2, i, total, ptr1, ptr2, out, fail, junk, which) ==
    IF which = 0
    THEN [out |-> out, ptr1 |-> ptr1, ptr2 |-> ptr2, fail |-> fail,
          error |-> "unexpected"]
    ELSE
    LET element == IF which = 1 THEN ReadSlot(d1, ptr1, n, junk)
                   ELSE ReadAt(d2, n2, ptr2, n, junk)
    IN  CombineLoop(d1, d2, end1, end2, n, n2, i + 1, total,
                    IF which = 1 THEN ptr1 + 1 ELSE ptr1,
                    IF which = 1 THEN ptr2
                    ELSE IF which = 2 THEN ptr2 + n ELSE ptr2 + n2,
                    IF out = <<>> \/ memcmp(out[Len(out)], element, n) # 0
                    THEN Append(out, element) ELSE out,
                    IF out # <<>> /\ memcmp(out[Len(out)], element, n) > 0
                    THEN fail \cup {"combine: prev < element"} ELSE fail,
                    junk)

\* mutant: the merged array is stored in both sets
Merged_both(a, b, c1, c2, m) ==
    [eset1  |-> [c1.eset EXCEPT !.data = m.out,
                                !.nbytes = Len(m.out) * c1.eset.item_size,
                                !.nall = Len(m.out),
                                !.nsorted = Len(m.out)],
     eset2  |-> [c2.eset EXCEPT !.data = m.out,
                                !.nbytes = Len(m.out) * c1.eset.item_size,
                                !.nall = Len(m.out),
                                !.nsorted = Len(m.out)],
     error  |-> m.error,
     fail   |-> c1.fail \cup c2.fail \cup m.fail,
     ctxuse1 |-> c1.ctxuse,
     ctxuse2 |-> c2.ctxuse]

\* the end of count_distinct_combine: c1, c2 are what the two compactions did
\* and m what the loop did
Merged(a, b, c1, c2, m) ==
    [eset1  |-> [c1.eset EXCEPT !.data = m.out,
                                !.nbytes = Len(m.out) * c1.eset.item_size,
                                !.nall = (Len(m.out) * c1.eset.item_size) \div c1.eset.item_size,
                                !.nsorted = (Len(m.out) * c1.eset.item_size) \div c1.eset.item_size],
     eset2  |-> c2.eset,
     error  |-> m.error,
     fail   |-> c1.fail \cup c2.fail \cup m.fail
                \cup (IF a.item_size > 0 /\ a.item_size = b.item_size THEN {}
                      ELSE {"combine: item_size"})
                \cup (IF m.ptr1 = c1.eset.nall THEN {} ELSE {"combine: ptr1 at end"})
                \cup (IF m.ptr2 = c2.eset.nall * c2.eset.item_size THEN {}
                      ELSE {"combine: ptr2 at end"}),
     ctxuse1 |-> c1.ctxuse,
     ctxuse2 |-> c2.ctxuse]

CombineCompacted(a, b, c1, c2, junk) ==
    Merged(a, b, c1, c2,
           CombineLoop(c1.eset.data, c2.eset.data, c1.eset.nbytes, c2.eset.nbytes,
                       c1.eset.item_size, c2.eset.item_size,
                       0, c1.eset.nall + c2.eset.nall, 0, 0,
                       <<>>, {}, junk))

\* count_distinct_combine with both states present: eset1 after the merge,
\* eset2 after its compaction
CombineSets(a, b, junk) ==
    CombineCompacted(a, b, compact_set(a, FALSE), compact_set(b, FALSE), junk)

\* count_distinct_combine with eset1 == NULL: a copy of eset2; typalign and
\* aggctx of the palloc'ed struct are not set
CopySet(b) ==
    [item_size |-> b.item_size,
     typalign  |-> "uninit",
     nsorted   |-> b.nsorted,
     nall      |-> b.nall,
     nbytes    |-> b.nbytes,
     aggctx    |-> "uninit",
     data      |-> b.data]

\* ------------------------------------------------------------ Datums
\* a Datum with its null flag; ptr is <<>> for the NULL pointer, <<e>> for a
\* pointer to the set e
NullDatum == [isnull |-> TRUE, ptr |-> <<>>]

PointerGetDatum(p) == [isnull |-> FALSE, ptr |-> p]

\* PG_ARGISNULL(i) ? NULL : PG_GETARG_POINTER(i)
ArgPointer(d) == IF d.isnull THEN <<>> ELSE d.ptr

\* get_typlenbyvalalign: the alignment of a by-value type of this length
TypAlign(len) == IF len = 8 THEN "d" ELSE IF len = 4 THEN "i"
                 ELSE IF len = 2 THEN "s" ELSE "c"

\* ------------------------------------------------------------ record buffers
\* What a call does to the heap, as the sequence of its palloc / pfree /
\* repalloc calls and of its accesses to record arrays, in program order. An
\* access goes through a local pointer (ptr) or through eset->data of the
\* first or second set of the call (set 1 or 2). An allocation is made in the
\* memory context ctx; "" stands for the context the call is given
\* (agg_context, or the current context where the call does not switch).
PallocIn(p, c) == [op |-> "palloc",   ptr |-> p,  set |-> 0, ctx |-> c]
Palloc(p) == PallocIn(p, "")
LoadData(p, k) == [op |-> "load",     ptr |-> p,  set |-> k, ctx |-> ""]
Read(p) == [op |-> "read",     ptr |-> p,  set |-> 0, ctx |-> ""]
Write(p) == [op |-> "write",    ptr |-> p,  set |-> 0, ctx |-> ""]
ReadData(k) == [op |-> "read",     ptr |-> "", set |-> k, ctx |-> ""]
WriteData(k) == [op |-> "write",    ptr |-> "", set |-> k, ctx |-> ""]
PfreeData(k) == [op |-> "pfree",    ptr |-> "", set |-> k, ctx |-> ""]
StoreData(k, p) == [op |-> "store",    ptr |-> p,  set |-> k, ctx |-> ""]
RepallocData(k) == [op |-> "repalloc", ptr |-> "", set |-> k, ctx |-> ""]

\* sort and duplicate removal of compact_set work in place, through base,
\* last and curr, which point into eset->data
SortMem(e, k) ==
    IF e.nall > e.nsorted
    THEN <<LoadData("base", k), Read("base"), Write("base")>>
    ELSE <<>>

\* the merge of compact_set: a new array, allocated after
\* MemoryContextSwitchTo(eset->aggctx), the loop that reads the old one
\* through a and b and writes the new one, then pfree(eset->data) and
\* eset->data = data
MergeMem(d, k) ==
    IF d.nsorted < d.nall
    THEN <<PallocIn("data", d.aggctx), LoadData("a", k), LoadData("b", k),
           Read("a"), Read("b"), Write("data"), PfreeData(k), StoreData(k, "data")>>
    ELSE <<>>

\* the growth of compact_set: eset->data = repalloc(eset->data, nbytes)
GrowMem(m, need_space, k) ==
    IF need_space /\ LowOnSpace(m.nbytes, m.nall, m.item_size)
    THEN <<RepallocData(k)>>
    ELSE <<>>

\* compact_set(eset, need_space), eset being set k of the call
compact_set_mem(e, need_space, k) ==
    SortMem(e, k) \o MergeMem(DedupStep(e), k)
    \o GrowMem(MergeStep(DedupStep(e)), need_space, k)

\* init_set: eset->data = palloc(nbytes)
init_set_mem(k) == <<Palloc("data"), StoreData(k, "data")>>

\* add_element: the compaction if there is no room, then the memcpy to
\* eset->data + item_size * nall
add_element_mem(e, k) ==
    (IF e.item_size * (e.nall + 1) > e.nbytes THEN compact_set_mem(e, TRUE, k) ELSE <<>>)
    \o <<WriteData(k)>>

\* count_distinct_append with a value, e being the set it uses
count_distinct_append_mem(arg, e) ==
    (IF arg.isnull THEN init_set_mem(1) ELSE <<>>) \o add_element_mem(e, 1)

\* count_distinct_serial, and count_distinct and build_array alike: the
\* compaction, then the records are read from eset->data
count_distinct_serial_mem(e) == compact_set_mem(e, FALSE, 1) \o <<ReadData(1)>>

\* count_distinct_deserial: eset->data = palloc(...), memcpy to eset->data
count_distinct_deserial_mem == <<Palloc("data"), StoreData(1, "data"), WriteData(1)>>

\* count_distinct_combine with eset1 == NULL: the new set gets an array of
\* its own, to which eset2->data is copied
CopySetMem == <<Palloc("data"), StoreData(1, "data"), ReadData(2), WriteData(1)>>

\* count_distinct_combine with both sets: the two compactions, the new array,
\* the loop that reads through ptr1 and ptr2 and writes the new array, then
\* pfree(eset1->data) and eset1->data = data
CombineSetsMem(a, b) ==
    compact_set_mem(a, FALSE, 1) \o compact_set_mem(b, FALSE, 2)
    \o <<Palloc("data"), LoadData("ptr1", 1), LoadData("ptr2", 2),
         Read("ptr1"), Read("ptr2"), Write("data"), PfreeData(1), StoreData(1, "data")>>

\* count_distinct_combine(arg1, arg2)
count_distinct_combine_mem(arg1, arg2) ==
    IF ArgPointer(arg2) = <<>> THEN <<>>
    ELSE IF ArgPointer(arg1) = <<>> THEN CopySetMem
    ELSE CombineSetsMem(arg1.ptr[1], arg2.ptr[1])

\* the local pointers of compact_set and count_distinct_combine that point
\* to record arrays
PtrNames == {"base", "data", "a", "b", "ptr1", "ptr2"}

\* What palloc does after MemoryContextSwitchTo to a pointer that is no
\* memory context of the running process: the process crashes, or the chunk
\* comes from whatever is at that address and is not an allocation that the
\* aggregate keeps.
WildOutcomes == {"crash", "stray"}

\* the heap at the start of a call: the arrays are numbered, array 1 is owned
\* by the first set and array 2 by the second, if the call is given them;
\* cur is the memory context of the aggregate in the running process, wild
\* the outcome of an allocation in a wild context
HeapAtCall(has1, has2, cur, wild) ==
    [cur   |-> cur,
     wild  |-> wild,
     crash |-> FALSE,
     next  |-> 3,
     live  |-> (IF has1 THEN {1} ELSE {}) \cup (IF has2 THEN {2} ELSE {}),
     owner |-> <<IF has1 THEN 1 ELSE 0, IF has2 THEN 2 ELSE 0>>,
     ptr   |-> [p \in PtrNames |-> 0],
     bad   |-> {}]

\* the array an event works on
Target(h, ev) == IF ev.set = 0 THEN h.ptr[ev.ptr] ELSE h.owner[ev.set]

\* eset->data of set k becomes array x
Owning(h, k, x) == <<IF k = 1 THEN x ELSE h.owner[1], IF k = 2 THEN x ELSE h.owner[2]>>

\* the heap after one event; bad collects the accesses to an array that is
\* not allocated (any more)
HeapStep(h, ev) ==
    IF h.crash THEN h
    ELSE IF ev.op = "palloc" /\ ev.ctx \notin {"", h.cur} /\ h.wild = "crash"
    THEN [h EXCEPT !.crash = TRUE]
    ELSE IF ev.op = "palloc"
    THEN [cur |-> h.cur, wild |-> h.wild, crash |-> FALSE,
          next  |-> h.next + 1,
          live  |-> IF ev.ctx \in {"", h.cur} THEN h.live \cup {h.next} ELSE h.live,
          owner |-> h.owner,
          ptr   |-> [p \in PtrNames |-> IF p = ev.ptr THEN h.next ELSE h.ptr[p]],
          bad   |-> h.bad]
    ELSE IF ev.op = "load"
    THEN [cur |-> h.cur, wild |-> h.wild, crash |-> FALSE,
          next  |-> h.next,
          live  |-> h.live,
          owner |-> h.owner,
          ptr   |-> [p \in PtrNames |-> IF p = ev.ptr THEN h.owner[ev.set] ELSE h.ptr[p]],
          bad   |-> h.bad]
    ELSE IF ev.op = "store"
    THEN [cur |-> h.cur, wild |-> h.wild, crash |-> FALSE,
          next  |-> h.next,
          live  |-> h.live,
          owner |-> Owning(h, ev.set, h.ptr[ev.ptr]),
          ptr   |-> h.ptr,
          bad   |-> h.bad]
    ELSE IF Target(h, ev) \notin h.live
    THEN [cur |-> h.cur, wild |-> h.wild, crash |-> FALSE,
          next  |-> h.next,
          live  |-> h.live,
          owner |-> h.owner,
          ptr   |-> h.ptr,
          bad   |-> h.bad \cup {ev.op}]
    ELSE IF ev.op = "pfree"
    THEN [cur |-> h.cur, wild |-> h.wild, crash |-> FALSE,
          next  |-> h.next,
          live  |-> h.live \ {Target(h, ev)},
          owner |-> h.owner,
          ptr   |-> h.ptr,
          bad   |-> h.bad]
    ELSE IF ev.op = "repalloc"
    THEN [cur |-> h.cur, wild |-> h.wild, crash |-> FALSE,
          next  |-> h.next + 1,
          live  |-> (h.live \ {Target(h, ev)}) \cup {h.next},
          owner |-> Owning(h, ev.set, h.next),
          ptr   |-> h.ptr,
          bad   |-> h.bad]
    ELSE h

\* the heap after the events i, i + 1, ... of evs
RECURSIVE HeapAfter(_, _, _)
HeapAfter(h, evs, i) ==
    IF i > Len(evs) THEN h ELSE HeapAfter(HeapStep(h, evs[i]), evs, i + 1)

\* ------------------------------------------------------------ state
VARIABLES
    state,    \* per aggregate slot: the transition value (a Datum)
    stream,   \* <<>> or <<b>>: the bytea last produced by count_distinct_serial
    proc,     \* the process running: its aggregation context is named after it
    typlen,   \* the length of the aggregated by-value type
    ver,      \* "new": src/count_distinct.c, "old": src/src/count_distinct.c
    err,      \* "" or the error that ended the query (elog(ERROR), a crash)
    ret,      \* the last call: what was called, on what, and what it returned
    vals,     \* history: per slot, the records its state was built from
    origin,   \* history: per slot, "absent", "append" (appends only), "deserial"
              \* (an "append" state serialized and deserialized, then appends
              \* only), "union" (the combine of two "append" states) or "other"
    sent,     \* history: what the serialized state finalized to
    ncalls    \* number of calls so far that appended, serialized or combined

vars == <<state, stream, proc, typlen, ver, err, ret, vals, origin, sent, ncalls>>

Ret(op, s, o) ==
    [op |-> op, slot |-> s, other |-> o, isnull |-> FALSE, count |-> 0,
     arr |-> <<>>, fail |-> {}, same |-> FALSE, compacted |-> FALSE]

NoSent == [item_size |-> 0, count |-> 0, arr |-> <<>>, vals |-> {}, origin |-> "absent"]

Init ==
    /\ state = [s \in Slots |-> NullDatum]
    /\ stream = <<>>
    /\ proc = "worker"
    /\ typlen \in ItemSizes
    /\ ver \in {"new", "old"}
    /\ err = ""
    /\ ret = Ret("none", "A", "A")
    /\ vals = [s \in Slots |-> {}]
    /\ origin = [s \in Slots |-> "absent"]
    /\ sent = NoSent
    /\ ncalls = 0

\* the older source has no parallel aggregation: one state
SlotOk(s) == ver = "old" => s = "A"

\* a non-null Datum that holds the NULL pointer
IsNullPointer(d) == ~d.isnull /\ d.ptr = <<>>

\* the call dereferenced a NULL pointer: the backend crashes
Crash(op, s, o, what) ==
    /\ err' = what
    /\ ret' = Ret(op, s, o)
    /\ UNCHANGED <<state, stream, proc, typlen, ver, vals, origin, sent>>

\* the set a call uses: the one pointed to, or for no state a new one
SetOf(arg) ==
    IF arg.isnull
    THEN IF ver = "old" THEN init_set_old(typlen, proc)
         ELSE init_set(typlen, TypAlign(typlen), proc)
    ELSE arg.ptr[1]

\* the merge of a compaction allocates in eset->aggctx, which is no memory
\* context of this process
WildCtx(e, ctxuse) == ctxuse /\ e.aggctx # proc

\* ------------------------------------------------------------ count_distinct_append
\* the test of add_element for "no room for another item", which makes it
\* call compact_set
NoRoom(e) == e.item_size * (e.nall + 1) > e.nbytes

\* the end of the call: e the set at entry, r what add_element did
Appended(s, v, arg, e, r) ==
    \/ /\ state' = [state EXCEPT ![s] = PointerGetDatum(<<r.eset>>)]
       /\ vals' = [vals EXCEPT ![s] = @ \cup {v}]
       /\ origin' = [origin EXCEPT ![s] = IF @ = "absent" THEN "append" ELSE @]
       /\ ret' = [Ret("append", s, s) EXCEPT !.fail = r.fail, !.same = ~arg.isnull,
                                             !.compacted = NoRoom(e)]
       /\ err' = IF r.eset.nall > Len(r.eset.data)
                 THEN "write past the end of the array" ELSE ""
       /\ UNCHANGED <<stream, proc, typlen, ver, sent>>
    \/ /\ WildCtx(e, r.ctxuse)
       /\ Crash("append", s, s, "allocation in a wild aggctx")

\* count_distinct_append(state[s], v) with v not NULL
AppendValue(s, v, max) ==
    /\ err = ""
    /\ SlotOk(s)
    /\ ncalls < max
    /\ ncalls' = ncalls + 1
    /\ IF IsNullPointer(state[s])
       THEN Crash("append", s, s, "NULL pointer dereferenced")
       ELSE Appended(s, v, state[s], SetOf(state[s]),
                     IF ver = "old" THEN add_element_old(SetOf(state[s]), v)
                     ELSE add_element(SetOf(state[s]), v))

\* mutant: NULL is returned whatever the state is
NullAppended_null(arg) == NullDatum

\* what count_distinct_append and count_distinct_elements_append return when
\* the new value is NULL: NULL when the state is NULL too, else the state Datum
NullAppended(arg) ==
    IF arg.isnull THEN NullDatum ELSE arg

\* the end of a transition call with a NULL value that returns res
NullAppendDone(op, s, res) ==
    /\ state' = [state EXCEPT ![s] = res]
    /\ ret' = [Ret(op, s, s) EXCEPT !.isnull = res.isnull,
                                    !.same = (~res.isnull /\ res = state[s])]
    /\ UNCHANGED <<stream, proc, typlen, ver, err, vals, origin, sent, ncalls>>

\* count_distinct_append(state[s], NULL)
AppendNull(s) ==
    /\ err = ""
    /\ SlotOk(s)
    /\ NullAppendDone("append_null", s, NullAppended(state[s]))

\* count_distinct_elements_append(state[s], NULL), the array itself being NULL
ElementsAppendNull(s) ==
    /\ err = ""
    /\ ver = "new"
    /\ SlotOk(s)
    /\ NullAppendDone("elements_append_null", s, NullAppended(state[s]))

\* ------------------------------------------------------------ final functions
\* the end of a final function: e the set at entry, r what the call did and
\* res what it returns
Finalized(s, e, r, res) ==
    \/ /\ state' = [state EXCEPT ![s] = PointerGetDatum(<<r.eset>>)]
       /\ ret' = [res EXCEPT !.fail = r.fail]
       /\ UNCHANGED <<stream, proc, typlen, ver, err, vals, origin, sent>>
    \/ /\ WildCtx(e, r.ctxuse)
       /\ Crash(res.op, s, s, "allocation in a wild aggctx")

\* the final function returns res without touching anything
Returned(res) ==
    /\ ret' = res
    /\ UNCHANGED <<state, stream, proc, typlen, ver, err, vals, origin, sent>>

Counted(s, e, r) == Finalized(s, e, r, [Ret("count", s, s) EXCEPT !.count = r.count])

\* count_distinct(state[s])
CountDistinct(s) ==
    /\ err = ""
    /\ SlotOk(s)
    /\ UNCHANGED ncalls
    /\ IF state[s].isnull
       THEN Returned([Ret("count", s, s) EXCEPT !.isnull = TRUE])
       ELSE IF IsNullPointer(state[s])
       THEN Crash("count", s, s, "NULL pointer dereferenced")
       ELSE Counted(s, state[s].ptr[1],
                    IF ver = "old" THEN count_distinct_old(state[s].ptr[1])
                    ELSE count_distinct(state[s].ptr[1]))

Arrayed(s, e, r) == Finalized(s, e, r, [Ret("array", s, s) EXCEPT !.arr = r.arr])

\* array_agg_distinct_type_by_element(state[s]), which returns an empty array
\* for no state (array_agg_distinct of the older source returns NULL)
ArrayAgg(s) ==
    /\ err = ""
    /\ SlotOk(s)
    /\ UNCHANGED ncalls
    /\ IF state[s].isnull
       THEN Returned([Ret("array", s, s) EXCEPT !.isnull = (ver = "old")])
       ELSE IF IsNullPointer(state[s])
       THEN Crash("array", s, s, "NULL pointer dereferenced")
       ELSE Arrayed(s, state[s].ptr[1],
                    IF ver = "old" THEN array_agg_distinct_old(state[s].ptr[1])
                    ELSE build_array(state[s].ptr[1]))

\* add_element of the next element: r is what the calls before did (for the
\* first, r.eset is the state's set or the one init_set made), a what this
\* call does
ElementAdded(r, a) ==
    [eset |-> a.eset, fail |-> r.fail \cup a.fail, ctxuse |-> r.ctxuse \/ a.ctxuse]

\* the loop over the elements of the array from element i on: cur is <<>>
\* while eset is NULL and <<r>> afterwards; NULL elements are skipped
RECURSIVE ElementsLoop(_, _, _, _)
ElementsLoop(arr, i, cur, arg) ==
    IF i > Len(arr) THEN cur
    ELSE IF arr[i] = NullElement THEN ElementsLoop(arr, i + 1, cur, arg)
    ELSE IF cur = <<>>
    THEN ElementsLoop(arr, i + 1,
                      <<ElementAdded(NotCompacted(SetOf(arg)),
                                     add_element(SetOf(arg), arr[i]))>>, arg)
    ELSE ElementsLoop(arr, i + 1,
                      <<ElementAdded(cur[1], add_element(cur[1].eset, arr[i]))>>, arg)

\* count_distinct_elements_append(arg, arr), arr not NULL: <<>> when it
\* returns NULL (eset is still NULL after the loop), else <<r>>
count_distinct_elements_append(arg, arr) == ElementsLoop(arr, 1, <<>>, arg)

\* the values among the elements of an array
ArrayValues(arr) == {arr[i] : i \in 1..Len(arr)} \ {NullElement}

\* the end of the call: cur is what the loop left
ElementsAppended(s, arr, arg, cur) ==
    IF cur = <<>>
    THEN /\ state' = [state EXCEPT ![s] = NullDatum]
         /\ origin' = [origin EXCEPT ![s] = "absent"]
         /\ ret' = [Ret("elements_append", s, s) EXCEPT !.isnull = TRUE]
         /\ UNCHANGED <<stream, proc, typlen, ver, err, vals, sent>>
    ELSE \/ /\ state' = [state EXCEPT ![s] = PointerGetDatum(<<cur[1].eset>>)]
            /\ vals' = [vals EXCEPT ![s] = @ \cup ArrayValues(arr)]
            /\ origin' = [origin EXCEPT ![s] = IF @ = "absent" THEN "append" ELSE @]
            /\ ret' = [Ret("elements_append", s, s) EXCEPT !.fail = cur[1].fail,
                                                           !.same = ~arg.isnull]
            /\ err' = IF cur[1].eset.nall > Len(cur[1].eset.data)
                      THEN "write past the end of the array" ELSE ""
            /\ UNCHANGED <<stream, proc, typlen, ver, sent>>
         \/ /\ WildCtx(cur[1].eset, cur[1].ctxuse)
            /\ Crash("elements_append", s, s, "allocation in a wild aggctx")

\* count_distinct_elements_append(state[s], arr) with arr not NULL
ElementsAppend(s, arr, max) ==
    /\ err = ""
    /\ ver = "new"
    /\ ncalls < max
    /\ ncalls' = ncalls + 1
    /\ IF IsNullPointer(state[s]) /\ ArrayValues(arr) # {}
       THEN Crash("elements_append", s, s, "NULL pointer dereferenced")
       ELSE ElementsAppended(s, arr, state[s],
                             count_distinct_elements_append(state[s], arr))

\* array_agg_distinct_type_by_array(state[s]) of the newer source: as
\* array_agg_distinct_type_by_element, the element type being that of the
\* array's elements
ArrayAggByArray(s) ==
    /\ err = ""
    /\ ver = "new"
    /\ UNCHANGED ncalls
    /\ IF state[s].isnull
       THEN Returned(Ret("array_by_array", s, s))
       ELSE IF IsNullPointer(state[s])
       THEN Crash("array_by_array", s, s, "NULL pointer dereferenced")
       ELSE Finalized(s, state[s].ptr[1], build_array(state[s].ptr[1]),
                      [Ret("array_by_array", s, s) EXCEPT
                          !.arr = build_array(state[s].ptr[1]).arr])

\* ------------------------------------------------------------ serial / deserial
\* the end of the call: e the set at entry, r what the call did
SerialDone(s, e, r) ==
    \/ /\ state' = [state EXCEPT ![s] = PointerGetDatum(<<r.eset>>)]
       /\ stream' = <<r.out>>
       /\ sent' = [item_size |-> e.item_size,
                   count     |-> count_distinct(e).count,
                   arr       |-> build_array(e).arr,
                   vals      |-> vals[s],
                   origin    |-> origin[s]]
       /\ ret' = [Ret("serial", s, s) EXCEPT !.fail = r.fail]
       /\ UNCHANGED <<proc, typlen, ver, err, vals, origin>>
    \/ /\ WildCtx(e, r.ctxuse)
       /\ Crash("serial", s, s, "allocation in a wild aggctx")

\* count_distinct_serial(state[s]); the function is not called on a NULL state
Serial(s, max) ==
    /\ err = ""
    /\ ver = "new"
    /\ ~state[s].isnull
    /\ ncalls < max
    /\ ncalls' = ncalls + 1
    /\ IF IsNullPointer(state[s])
       THEN Crash("serial", s, s, "NULL pointer dereferenced")
       ELSE SerialDone(s, state[s].ptr[1], count_distinct_serial(state[s].ptr[1]))

DeserialDone(s, d) ==
    /\ state' = [state EXCEPT ![s] = PointerGetDatum(<<d.eset>>)]
    /\ vals' = [vals EXCEPT ![s] = sent.vals]
    /\ origin' = [origin EXCEPT ![s] = IF sent.origin = "append" THEN "deserial"
                                       ELSE "other"]
    /\ ret' = [Ret("deserial", s, s) EXCEPT !.fail = d.fail]

\* count_distinct_deserial(stream), the result becoming the state of the free
\* slot s
Deserial(s) ==
    /\ err = ""
    /\ ver = "new"
    /\ stream # <<>>
    /\ state[s].isnull
    /\ DeserialDone(s, count_distinct_deserial(stream[1]))
    /\ UNCHANGED <<stream, proc, typlen, ver, err, sent, ncalls>>

\* a bytea whose length and header agree, and which holds a record
StreamConsistent(st) ==
    /\ st.len = OffsetofData + st.hdr.nall * st.hdr.item_size
    /\ st.hdr.nall > 0

\* the ways a bytea is made inconsistent
TamperKinds == {"longer", "shorter", "empty"}

\* the bytea st with a record's worth of trailing bytes, or cut short by one
\* record, or with a header that declares no record
Tampered(st, kind) ==
    IF kind = "longer" THEN [st EXCEPT !.len = st.len + st.hdr.item_size]
    ELSE IF kind = "shorter"
    THEN [len  |-> st.len - st.hdr.item_size,
          hdr  |-> st.hdr,
          data |-> [k \in 1..(Len(st.data) - 1) |-> st.data[k]]]
    ELSE [len  |-> OffsetofData,
          hdr  |-> [f \in DOMAIN st.hdr |->
                       IF f \in {"nall", "nsorted"} THEN 0 ELSE st.hdr[f]],
          data |-> <<>>]

\* the bytea is damaged before count_distinct_deserial gets it
Tamper(kind) ==
    /\ err = ""
    /\ stream # <<>>
    /\ StreamConsistent(stream[1])
    /\ stream' = <<Tampered(stream[1], kind)>>
    /\ sent' = [sent EXCEPT !.origin = "tampered"]
    /\ ret' = Ret("tamper", "A", "A")
    /\ UNCHANGED <<state, proc, typlen, ver, err, vals, origin, ncalls>>

\* the SQL-callable functions, by the value they are given
EntryPoints ==
    {"append", "append_null", "elements_append", "elements_append_null",
     "serial", "deserial", "combine", "count", "array", "array_by_array"}

\* the calls that return before GET_AGG_CONTEXT is reached:
\* count_distinct_append and count_distinct_elements_append with a NULL value
ReturnsBeforeContextCheck == {"append_null", "elements_append_null"}

\* what ret.op is for a function called outside of an aggregate
DirectName ==
    [append |-> "direct append", append_null |-> "direct append_null",
     elements_append |-> "direct elements_append",
     elements_append_null |-> "direct elements_append_null",
     serial |-> "direct serial", deserial |-> "direct deserial",
     combine |-> "direct combine", count |-> "direct count",
     array |-> "direct array", array_by_array |-> "direct array_by_array"]

\* elog(ERROR, "%s called in non-aggregate context")
NoAggContext == "called in non-aggregate context"

\* the function fn is called with state[s] where AggCheckCallContext is false
\* (a plain SQL function call)
CalledDirectly(fn, s) ==
    /\ err = ""
    /\ ver = "new"
    /\ IF fn \in ReturnsBeforeContextCheck
       THEN NullAppendDone(DirectName[fn], s, NullAppended(state[s]))
       ELSE /\ Crash(DirectName[fn], s, s, NoAggContext)
            /\ UNCHANGED ncalls

\* the calls that follow come from an aggregate over a type of another length:
\* a state they create gets that length as its item_size
OtherType ==
    /\ err = ""
    /\ typlen' \in ItemSizes \ {typlen}
    /\ ret' = Ret("type", "A", "A")
    /\ UNCHANGED <<state, stream, proc, ver, err, vals, origin, sent, ncalls>>

\* the bytea goes from the worker to the leader, whose aggregate starts with
\* no state; pointers of the worker mean nothing there
Transport ==
    /\ err = ""
    /\ proc = "worker"
    /\ stream # <<>>
    /\ proc' = "leader"
    /\ state' = [s \in Slots |-> NullDatum]
    /\ vals' = [s \in Slots |-> {}]
    /\ origin' = [s \in Slots |-> "absent"]
    /\ ret' = Ret("transport", "A", "A")
    /\ UNCHANGED <<stream, typlen, ver, err, sent, ncalls>>

\* ------------------------------------------------------------ count_distinct_combine
\* the end of the call with both states present: a, b the sets at entry, r
\* what the call did
CombineDone(s1, s2, a, b, r) ==
    \/ /\ r.error = ""
       /\ state' = [state EXCEPT ![s1] = PointerGetDatum(<<r.eset1>>),
                                 ![s2] = PointerGetDatum(<<r.eset2>>)]
       /\ vals' = [vals EXCEPT ![s1] = vals[s1] \cup vals[s2]]
       /\ origin' = [origin EXCEPT ![s1] =
                         IF origin[s1] = "append" /\ origin[s2] = "append"
                         THEN "union" ELSE "other"]
       /\ ret' = [Ret("combine", s1, s2) EXCEPT !.fail = r.fail, !.same = TRUE]
       /\ UNCHANGED <<stream, proc, typlen, ver, err, sent>>
    \/ /\ r.error # ""
       /\ Crash("combine", s1, s2, r.error)
    \/ /\ WildCtx(a, r.ctxuse1) \/ WildCtx(b, r.ctxuse2)
       /\ Crash("combine", s1, s2, "allocation in a wild aggctx")

\* count_distinct_combine(state[s1], state[s2]); the result becomes state[s1]
Combine(s1, s2, max) ==
    /\ err = ""
    /\ ver = "new"
    /\ s1 # s2
    /\ ncalls < max
    /\ ncalls' = ncalls + 1
    /\ IF ArgPointer(state[s2]) = <<>>
       THEN /\ state' = [state EXCEPT ![s1] = PointerGetDatum(ArgPointer(state[s1]))]
            /\ ret' = [Ret("combine", s1, s2) EXCEPT !.same = TRUE]
            /\ UNCHANGED <<stream, proc, typlen, ver, err, vals, origin, sent>>
       ELSE IF ArgPointer(state[s1]) = <<>>
       THEN /\ state' = [state EXCEPT
                            ![s1] = PointerGetDatum(<<CopySet(state[s2].ptr[1])>>)]
            /\ vals' = [vals EXCEPT ![s1] = vals[s2]]
            /\ origin' = [origin EXCEPT ![s1] = "other"]
            /\ ret' = Ret("combine", s1, s2)
            /\ UNCHANGED <<stream, proc, typlen, ver, err, sent>>
       ELSE \E junk \in JunkBytes :
               CombineDone(s1, s2, state[s1].ptr[1], state[s2].ptr[1],
                           CombineSets(state[s1].ptr[1], state[s2].ptr[1], junk))

\* ------------------------------------------------------------ specification
\* one aggregate state built by the transition function and finalized
NextSeq ==
    \/ \E v \in Values : AppendValue("A", v, MaxAppends)
    \/ AppendNull("A")
    \/ ElementsAppendNull("A")
    \/ ArrayAggByArray("A")
    \/ CountDistinct("A")
    \/ ArrayAgg("A")

SpecSeq == Init /\ [][NextSeq]_vars

\* partial aggregation: states built, serialized, deserialized and combined
Next ==
    \/ \E s \in Slots, v \in ParValues : AppendValue(s, v, MaxCalls)
    \/ \E s \in Slots : ArrayAgg(s)
    \/ \E s \in Slots : Serial(s, MaxCalls)
    \/ \E s \in Slots : Deserial(s)
    \/ Transport
    \/ \E s1 \in Slots, s2 \in Slots : Combine(s1, s2, MaxCalls)

Spec == Init /\ [][Next]_vars

\* a reduction tree: three states built by appends, combined in any order
TreeSlots == {"A", "B", "C"}

InitTree ==
    /\ state = [s \in TreeSlots |-> NullDatum]
    /\ stream = <<>>
    /\ proc = "worker"
    /\ typlen \in ItemSizes
    /\ ver = "new"
    /\ err = ""
    /\ ret = Ret("none", "A", "A")
    /\ vals = [s \in TreeSlots |-> {}]
    /\ origin = [s \in TreeSlots |-> "absent"]
    /\ sent = NoSent
    /\ ncalls = 0

NextTree ==
    \/ \E s \in TreeSlots, v \in ParValues : AppendValue(s, v, MaxTreeCalls)
    \/ \E s \in TreeSlots : ArrayAgg(s)
    \/ \E s1 \in TreeSlots, s2 \in TreeSlots : Combine(s1, s2, MaxTreeCalls)

SpecTree == InitTree /\ [][NextTree]_vars

\* a state is built and serialized, and the bytea, damaged or not, is
\* deserialized and finalized
NextWire ==
    \/ \E v \in ParValues : AppendValue("A", v, MaxWireCalls)
    \/ Serial("A", MaxWireCalls)
    \/ \E kind \in TamperKinds : Tamper(kind)
    \/ Transport
    \/ Deserial("B")
    \/ CountDistinct("B")
    \/ ArrayAgg("B")

SpecWire == Init /\ [][NextWire]_vars

\* states of aggregates over types of different lengths are built and combined
NextMixed ==
    \/ \E s \in Slots, v \in ParValues : AppendValue(s, v, MaxMixedCalls)
    \/ OtherType
    \/ \E s1, s2 \in Slots : Combine(s1, s2, MaxMixedCalls)

SpecMixed == Init /\ [][NextMixed]_vars

\* states of the newer source over a type of any by-value length
InitRoom ==
    /\ state = [s \in Slots |-> NullDatum]
    /\ stream = <<>>
    /\ proc = "worker"
    /\ typlen \in AllItemSizes
    /\ ver = "new"
    /\ err = ""
    /\ ret = Ret("none", "A", "A")
    /\ vals = [s \in Slots |-> {}]
    /\ origin = [s \in Slots |-> "absent"]
    /\ sent = NoSent
    /\ ncalls = 0

\* states are built by appends, serialized, deserialized in the same process,
\* combined and appended to
NextRoom ==
    \/ \E s \in Slots, v \in ParValues : AppendValue(s, v, MaxRoomCalls)
    \/ \E s \in Slots : Serial(s, MaxRoomCalls)
    \/ \E s \in Slots : Deserial(s)
    \/ \E s1, s2 \in Slots : Combine(s1, s2, MaxRoomCalls)

SpecRoom == InitRoom /\ [][NextRoom]_vars

\* state A is built by appends and serialized, now and then; the byteas are
\* deserialized into B and C, which are combined
NextExact ==
    \/ \E v \in ParValues : AppendValue("A", v, MaxExactCalls)
    \/ Serial("A", MaxExactCalls)
    \/ \E s \in {"B", "C"} : Deserial(s)
    \/ \E s1, s2 \in {"B", "C"} : Combine(s1, s2, MaxExactCalls)

SpecExact == InitTree /\ [][NextExact]_vars

\* the transition functions are given values, arrays and NULLs
NextElems ==
    \/ \E v \in ParValues : AppendValue("A", v, MaxElemCalls)
    \/ \E arr \in Arrays : ElementsAppend("A", arr, MaxElemCalls)
    \/ AppendNull("A")
    \/ ElementsAppendNull("A")
    \/ CountDistinct("A")

SpecElems == Init /\ [][NextElems]_vars

\* the set of a worker that aggregated n distinct 2-byte values, compacted:
\* the array grew 32, 64, ..., 4096, 8192 on the way
WorkerSet(n) ==
    [item_size |-> 2,
     typalign  |-> TypAlign(2),
     nsorted   |-> n,
     nall      |-> n,
     nbytes    |-> ALLOCSET_SEPARATE_THRESHOLD,
     aggctx    |-> "worker",
     data      |-> [k \in 1..(ALLOCSET_SEPARATE_THRESHOLD \div 2) |->
                       IF k <= n THEN <<k \div 256, k % 256>> ELSE Uninit]]

\* the bytea of such a worker has arrived at the leader
InitLarge ==
    /\ state = [s \in Slots |-> NullDatum]
    /\ \E n \in MinLargeRecords..MaxLargeRecords :
          /\ stream = <<count_distinct_serial(WorkerSet(n)).out>>
          /\ sent = [item_size |-> 2,
                     count     |-> count_distinct(WorkerSet(n)).count,
                     arr       |-> build_array(WorkerSet(n)).arr,
                     vals      |-> {RecordDatum(<<k \div 256, k % 256>>) : k \in 1..n},
                     origin    |-> "append"]
    /\ proc = "leader"
    /\ typlen = 2
    /\ ver = "new"
    /\ err = ""
    /\ ret = Ret("none", "A", "A")
    /\ vals = [s \in Slots |-> {}]
    /\ origin = [s \in Slots |-> "absent"]
    /\ ncalls = 0

\* Datums appended to a large set: 256 (in it) and -1 (not in it)
LargeValues == {Int16Datum(0, 1), Int16Datum(255, 255)}

\* the leader deserializes the bytea and goes on appending
NextLarge ==
    \/ Deserial("A")
    \/ \E v \in LargeValues : AppendValue("A", v, MaxLargeAppends)

SpecLarge == InitLarge /\ [][NextLarge]_vars

\* array arguments: no element, only a NULL, a NULL and two values
EntryArrays ==
    {<<>>, <<NullElement>>, <<Int16Datum(1, 0), NullElement, Int16Datum(0, 1)>>}

\* every function that returns a transition state is called: states are
\* built from values and arrays, serialized, deserialized in the same process
\* and combined
NextEntry ==
    \/ \E s \in Slots, v \in ParValues : AppendValue(s, v, MaxEntryCalls)
    \/ \E s \in Slots, arr \in EntryArrays : ElementsAppend(s, arr, MaxEntryCalls)
    \/ \E s \in Slots : Serial(s, MaxEntryCalls)
    \/ \E s \in Slots : Deserial(s)
    \/ \E s1, s2 \in Slots : Combine(s1, s2, MaxEntryCalls)

SpecEntry == InitRoom /\ [][NextEntry]_vars

\* the memory the value argument of add_element points to: ARRAY_INIT_SIZE
\* bytes, of which item_size are copied
WideValues == {[k \in 1..ARRAY_INIT_SIZE |-> b] : b \in 1..4}

\* sets of records of any width up to the initial array size
InitWidth ==
    /\ state = [s \in Slots |-> NullDatum]
    /\ stream = <<>>
    /\ proc = "worker"
    /\ typlen \in 1..ARRAY_INIT_SIZE
    /\ ver = "new"
    /\ err = ""
    /\ ret = Ret("none", "A", "A")
    /\ vals = [s \in Slots |-> {}]
    /\ origin = [s \in Slots |-> "absent"]
    /\ sent = NoSent
    /\ ncalls = 0

\* init_set(item_size), then add_element again and again
NextWidth ==
    \E v \in WideValues : AppendValue("A", v, MaxWidthAppends)

SpecWidth == InitWidth /\ [][NextWidth]_vars

\* a state is built in an aggregate, and the functions are called outside of
\* one
NextDirect ==
    \/ \E v \in ParValues : AppendValue("A", v, MaxDirectAppends)
    \/ \E fn \in EntryPoints, s \in Slots : CalledDirectly(fn, s)

SpecDirect == Init /\ [][NextDirect]_vars

\* ------------------------------------------------------------ properties
Range(s) == {s[i] : i \in 1..Len(s)}

\* the Datums of arr are in strictly ascending memcmp order of their records
StrictlyAscending(arr, n) ==
    \A i \in 1..(Len(arr) - 1) :
        memcmp(DatumBytes(arr[i], n), DatumBytes(arr[i + 1], n), n) < 0

\* the set of the state of slot s
SetIn(s) == state[s].ptr[1]

HasSet(s) == ~state[s].isnull /\ state[s].ptr # <<>>

\* C1: count_distinct on a state built by appends alone (any number of
\* compactions and growths on the way) returns the number of distinct values
\* appended, whatever their order.
C1_CountIsDistinctCount ==
    (ret.op = "count" /\ origin[ret.slot] = "append" /\ err = "")
        => /\ ~ret.isnull
           /\ ret.count = Cardinality(vals[ret.slot])
           /\ ret.fail = {}

\* five values with a duplicate were appended to an 8-byte set of the newer
\* source, the array grew to 64 bytes, and the count is 4
C1_Witness ==
    /\ ret.op = "count" /\ origin["A"] = "append" /\ ver = "new"
    /\ ncalls = 5 /\ ret.count = 4
    /\ HasSet("A") /\ SetIn("A").nbytes = 64

\* C2: build_array on a state built by appends alone returns exactly the
\* distinct values appended, in strictly ascending memcmp order (so each once);
\* the result is a function of the set of values appended, hence the same for
\* two states fed permutations of one multiset.
C2_ArrayIsSortedDistinct ==
    (ret.op = "array" /\ origin[ret.slot] = "append" /\ err = "")
        => /\ ~ret.isnull
           /\ StrictlyAscending(ret.arr, typlen)
           /\ Range(ret.arr) = vals[ret.slot]
           /\ Len(ret.arr) = Cardinality(vals[ret.slot])

\* the array returned is <<256, 1, 2, 3>> after five appends (one a duplicate)
C2_Witness ==
    /\ ret.op = "array" /\ origin["A"] = "append" /\ ncalls = 5
    /\ ret.arr = <<Int16Datum(0, 1), Int16Datum(1, 0), Int16Datum(2, 0), Int16Datum(3, 0)>>

\* what the two final functions return for the set e
FinalArray(e) == build_array(e).arr

FinalCount(e) == count_distinct(e).count

\* arr lists exactly the values of the set S, in strictly ascending order
IsSortedSetOf(arr, S, n) ==
    /\ StrictlyAscending(arr, n)
    /\ Range(arr) = S
    /\ Len(arr) = Cardinality(S)

\* C3: count_distinct_combine of two states each built by appends alone
\* returns a state that finalizes to the sorted union of their values, with
\* the count of one state fed both input sequences.
C3_CombineIsSortedUnion ==
    (ret.op = "combine" /\ origin[ret.slot] = "union" /\ err = "")
        => /\ HasSet(ret.slot)
           /\ IsSortedSetOf(FinalArray(SetIn(ret.slot)), vals[ret.slot], typlen)
           /\ FinalCount(SetIn(ret.slot)) = Cardinality(vals[ret.slot])

\* the state count_distinct_combine(x, y) returns
CombineOf(x, y, junk) == CombineSets(x, y, junk).eset1

\* how the states of slots p[1], p[2], p[3] finalize when combined
\* left-nested and right-nested
LeftTree(p, junk) ==
    FinalArray(CombineOf(CombineOf(SetIn(p[1]), SetIn(p[2]), junk), SetIn(p[3]), junk))

RightTree(p, junk) ==
    FinalArray(CombineOf(SetIn(p[1]), CombineOf(SetIn(p[2]), SetIn(p[3]), junk), junk))

\* the three slots in every order
Orders ==
    {p \in TreeSlots \X TreeSlots \X TreeSlots : p[1] # p[2] /\ p[1] # p[3] /\ p[2] # p[3]}

\* C4: for three states built by appends, count_distinct_combine applied in
\* either grouping and with the operands in any order finalizes to one and the
\* same sorted sequence.
C4_CombineAnyOrderAnyGrouping ==
    (\A s \in TreeSlots : origin[s] = "append")
        => \A junk \in JunkBytes :
              Cardinality({LeftTree(p, junk) : p \in Orders}
                          \cup {RightTree(p, junk) : p \in Orders}) = 1

\* C5: the state count_distinct_deserial makes of the bytea that
\* count_distinct_serial made of a state has that state's item_size and
\* finalizes to the same count and the same array.
C5_SerialRoundTrip ==
    ret.op = "deserial"
        => /\ HasSet(ret.slot)
           /\ ret.fail = {}
           /\ SetIn(ret.slot).item_size = sent.item_size
           /\ FinalCount(SetIn(ret.slot)) = sent.count
           /\ FinalArray(SetIn(ret.slot)) = sent.arr

\* a state of three values, all of them pending when it was serialized, was
\* deserialized in the leader
C5_Witness ==
    /\ ret.op = "deserial" /\ proc = "leader"
    /\ sent.count = 3 /\ Len(sent.arr) = 3
    /\ SetIn(ret.slot).nall = 3

\* records 1 .. nsorted of the array are strictly increasing
SortedZoneAscending(e) ==
    \A i \in 1..(e.nsorted - 1) : memcmp(e.data[i], e.data[i + 1], e.item_size) < 0

\* C6: in every state the sorted part of every set is strictly increasing
\* under memcmp.
C6_SortedZoneStrictlyIncreasing ==
    \A s \in Slots : HasSet(s) => SortedZoneAscending(SetIn(s))

\* C7: in every state of src/count_distinct.c, nsorted <= nall and
\* nall * item_size <= nbytes for every set, and no call failed one of the
\* Asserts at the entry of compact_set.
C7_CountsWithinCapacity ==
    ver = "new"
        => /\ \A s \in Slots :
                 HasSet(s) => /\ SetIn(s).nsorted <= SetIn(s).nall
                              /\ SetIn(s).nall * SetIn(s).item_size <= SetIn(s).nbytes
           /\ ret.fail \cap {"compact_set: nall > 0",
                             "compact_set: nsorted <= nall",
                             "compact_set: nall * item_size <= nbytes"} = {}

\* a deserialized set (nbytes = nall * item_size) took an append, which grew
\* the array to 16 bytes
C7_Witness ==
    /\ ver = "new" /\ ret.op = "append" /\ origin[ret.slot] = "deserial"
    /\ HasSet(ret.slot)
    /\ SetIn(ret.slot).nbytes = 16 /\ SetIn(ret.slot).nall = 2
    /\ SetIn(ret.slot).nsorted = 1

\* the counts, the size and the array bytes of two sets are the same
SameContents(x, y) ==
    /\ x.item_size = y.item_size
    /\ x.nsorted = y.nsorted
    /\ x.nall = y.nall
    /\ x.nbytes = y.nbytes
    /\ x.data = y.data

\* a step that is a call of count_distinct_combine(state[s1], state[s2])
IsCombineStep(s1, s2) ==
    /\ ncalls' = ncalls + 1
    /\ ret'.op = "combine" /\ ret'.slot = s1 /\ ret'.other = s2
    /\ err' = ""

\* C8: count_distinct_combine with a NULL state: (A, NULL) returns A itself
\* and changes nothing; (NULL, B) returns a set with B's item_size, nsorted,
\* nall, nbytes and array bytes and leaves B as it was; (NULL, NULL) returns
\* NULL.
C8_NullIsIdentityOfCombine ==
    [][\A s1 \in Slots, s2 \in Slots :
          IsCombineStep(s1, s2)
              => /\ (~state[s1].isnull /\ state[s2].isnull) => state' = state
                 /\ (state[s1].isnull /\ HasSet(s2))
                        => /\ state'[s2] = state[s2]
                           /\ ~state'[s1].isnull /\ state'[s1].ptr # <<>>
                           /\ SameContents(state'[s1].ptr[1], state[s2].ptr[1])
                 /\ (state[s1].isnull /\ state[s2].isnull) => state'[s1].isnull]_vars

\* C9: the set count_distinct_deserial returns has nsorted = nall and
\* nbytes = nall * item_size, every append to it succeeds, and it counts the
\* distinct values among the serialized and the appended ones.
C9_DeserializedIsUsable ==
    \A s \in Slots :
        origin[s] = "deserial"
            => /\ HasSet(s)
               /\ (ret.op = "deserial" /\ ret.slot = s)
                      => /\ SetIn(s).nsorted = SetIn(s).nall
                         /\ SetIn(s).nbytes = SetIn(s).nall * SetIn(s).item_size
               /\ ~(ret.op = "append" /\ ret.slot = s /\ err # "")
               /\ err = "" => FinalCount(SetIn(s)) = Cardinality(vals[s])

\* C10: the bytea of count_distinct_serial holds the four uint32 members
\* item_size, nsorted, nall, nbytes (16 bytes) and nall * item_size bytes of
\* records, and no other member of the struct.
C10_StreamIsFourFieldsAndRecords ==
    stream # <<>>
        => /\ DOMAIN stream[1].hdr = {"item_size", "nsorted", "nall", "nbytes"}
           /\ stream[1].len = 4 * U32Size + stream[1].hdr.nall * stream[1].hdr.item_size
           /\ Len(stream[1].data) = stream[1].hdr.nall

\* C11: the bytea count_distinct_serial returns has nsorted = nall = the
\* number of distinct values the state holds in its header, and strictly
\* increasing records, whatever was pending at the call.
C11_SerialSendsSortedDistinct ==
    (ret.op = "serial" /\ err = "")
        => /\ stream[1].hdr.nsorted = stream[1].hdr.nall
           /\ stream[1].hdr.nall = Cardinality(vals[ret.slot])
           /\ Len(stream[1].data) = stream[1].hdr.nall
           /\ StrictlyAscending(stream[1].data, stream[1].hdr.item_size)

\* the same for states built by appends alone, or deserialized from such a
\* state and appended to
SerialOfAppendBuilt ==
    (ret.op = "serial" /\ err = "" /\ sent.origin \in {"append", "deserial"})
        => /\ stream[1].hdr.nsorted = stream[1].hdr.nall
           /\ stream[1].hdr.nall = Cardinality(vals[ret.slot])
           /\ StrictlyAscending(stream[1].data, stream[1].hdr.item_size)

\* C12: count_distinct_deserial of a bytea whose length is not the header
\* length plus nall * item_size, or whose header has nall = 0, ends in an
\* error and makes no state.
C12_DeserialRejectsInconsistentStream ==
    (ret.op = "deserial" /\ ~StreamConsistent(stream[1]))
        => /\ err # ""
           /\ state[ret.slot].isnull

\* C13: count_distinct_combine of two states with different item_size ends
\* in an error and returns no merged state.
C13_CombineRejectsItemSizeMismatch ==
    (ret.op = "combine" /\ "combine: item_size" \in ret.fail) => err # ""

\* the set compact_set leaves, in the source the behaviour runs
CompactedSet(e, need_space) ==
    IF ver = "new" THEN compact_set(e, need_space).eset
    ELSE compact_set_old(e, need_space).eset

\* the records of a set
Records(e) == [k \in 1..e.nall |-> e.data[k]]

SameCompaction(x, y) ==
    /\ x.nsorted = y.nsorted
    /\ x.nall = y.nall
    /\ Records(x) = Records(y)

\* C14: for every state with at least one record, compact_set called twice in
\* a row leaves the same nsorted, nall and records as compact_set called once,
\* whatever need_space is in the two calls.
C14_CompactionIsIdempotent ==
    err = "" =>
        \A s \in Slots : (HasSet(s) /\ SetIn(s).nall > 0) =>
            \A ns1 \in BOOLEAN :
                LET once == CompactedSet(SetIn(s), ns1)
                IN  \A ns2 \in BOOLEAN :
                        SameCompaction(CompactedSet(once, ns2), once)

\* a state with a sorted part and new items, one of them a duplicate
C14_Witness ==
    /\ err = ""
    /\ \E s \in Slots :
          /\ HasSet(s)
          /\ SetIn(s).nsorted > 0
          /\ SetIn(s).nsorted < SetIn(s).nall
          /\ CompactedSet(SetIn(s), TRUE).nall < SetIn(s).nall

\* the set of the records of a set
RecordSet(e) == {e.data[k] : k \in 1..e.nall}

\* the step is a count_distinct_append on slot s that enlarged the array
IsGrowingAppend(s) ==
    /\ HasSet(s)
    /\ err' = ""
    /\ ret'.op = "append"
    /\ ret'.slot = s
    /\ SetIn(s)'.nbytes > SetIn(s).nbytes

\* C15: when an append enlarges the array, the records the compaction left
\* are the same bytes at the same positions afterwards, the appended value
\* follows them, and the set of records is the set before plus that value.
C15_GrowthPreservesData ==
    [][\A s \in Slots : IsGrowingAppend(s) =>
          /\ SetIn(s)'.nall = CompactedSet(SetIn(s), FALSE).nall + 1
          /\ \A k \in 1..CompactedSet(SetIn(s), FALSE).nall :
                SetIn(s)'.data[k] = CompactedSet(SetIn(s), FALSE).data[k]
          /\ RecordSet(SetIn(s)') =
                RecordSet(SetIn(s)) \cup {SetIn(s)'.data[SetIn(s)'.nall]}
          /\ {DatumBytes(d, SetIn(s).item_size) : d \in vals'[s]} =
                RecordSet(SetIn(s)')]_vars

\* an append has enlarged the array of a state of the newer source
C15_Witness ==
    /\ err = ""
    /\ ver = "new"
    /\ ret.op = "append"
    /\ HasSet(ret.slot)
    /\ SetIn(ret.slot).nbytes > ARRAY_INIT_SIZE
    /\ SetIn(ret.slot).nall * SetIn(ret.slot).item_size > ARRAY_INIT_SIZE

\* C16: a transition call with a NULL value leaves the state as it is (NULL
\* stays NULL, an existing state is returned with the same fields and
\* records), and a state comes into being only by the append of a value.
C16_NullAppendChangesNothing ==
    [][\A s \in Slots :
          /\ (ret'.op \in {"append_null", "elements_append_null"} /\ ret'.slot = s)
                => /\ state'[s] = state[s]
                   /\ ret'.isnull = state[s].isnull
                   /\ vals'[s] = vals[s]
          /\ (state[s].isnull /\ ~state'[s].isnull) => ret'.op = "append"]_vars

\* a NULL was appended to a state with unsorted items
C16_Witness ==
    /\ ret.op \in {"append_null", "elements_append_null"}
    /\ ~ret.isnull
    /\ HasSet(ret.slot)
    /\ SetIn(ret.slot).nsorted < SetIn(ret.slot).nall

\* C17: a final function called with no state makes none: count_distinct
\* returns NULL, and array_agg_distinct_type_by_element,
\* array_agg_distinct_type_by_array and array_agg_distinct of the older
\* source return an empty array.
C17_FinalOfAbsent ==
    (ret.op \in {"count", "array", "array_by_array"} /\ err = ""
     /\ state[ret.slot].isnull)
        => /\ ret.op = "count" => ret.isnull
           /\ ret.op \in {"array", "array_by_array"}
                 => (~ret.isnull /\ ret.arr = <<>>)

\* the same for the final functions of the newer source alone
FinalOfAbsentNew ==
    ver = "new" => C17_FinalOfAbsent

\* C18: a function called outside of an aggregate ends in the error
\* "called in non-aggregate context", whatever its arguments are.
C18_NoAggContextIsAnError ==
    (\E fn \in EntryPoints : ret.op = DirectName[fn]) => err = NoAggContext

\* the same for the calls with a value that is not NULL
DirectCallWithValueIsAnError ==
    (\E fn \in EntryPoints \ ReturnsBeforeContextCheck : ret.op = DirectName[fn])
        => err = NoAggContext

\* C19: when add_element copies the value, nbytes >= item_size * (nall + 1):
\* its Assert holds and the write stays inside the array, for states of any
\* by-value item_size made by init_set, appends, count_distinct_deserial and
\* count_distinct_combine.
C19_AppendHasRoom ==
    ret.op = "append"
        => /\ "add_element: nbytes >= item_size * (nall + 1)" \notin ret.fail
           /\ err # "write past the end of the array"

\* a value was appended to a state whose array was exactly full and smaller
\* than the initial one (a deserialized or combined state), so that the array
\* grew
C19_Witness ==
    /\ ret.op = "append"
    /\ err = ""
    /\ HasSet(ret.slot)
    /\ SetIn(ret.slot).nbytes < ARRAY_INIT_SIZE
    /\ SetIn(ret.slot).nall > 1
    /\ SetIn(ret.slot).item_size \in {1, 2}

\* a set as count_distinct_deserial makes it: nothing unsorted, the array
\* exactly as long as its records, the records strictly ascending
ExactSet(e) ==
    /\ e.nall > 0
    /\ e.nsorted = e.nall
    /\ e.nbytes = e.nall * e.item_size
    /\ Len(e.data) = e.nall
    /\ StrictlyAscending(Records(e), e.item_size)

\* the step is a call of count_distinct_combine(state[s1], state[s2]) with
\* two such sets
IsExactCombine(s1, s2) ==
    /\ ncalls' = ncalls + 1
    /\ ret'.op = "combine" /\ ret'.slot = s1 /\ ret'.other = s2
    /\ HasSet(s1) /\ HasSet(s2)
    /\ ExactSet(SetIn(s1)) /\ ExactSet(SetIn(s2))

\* C20: count_distinct_combine of two compacted states with
\* nbytes = nall * item_size ends without error, its loop leaves both
\* pointers at the end of the records and emits ascending records (no Assert
\* fails), and the state it returns holds the sorted union, with
\* nsorted = nall and nbytes = nall * item_size.
C20_CombineOfExactSets ==
    [][\A s1, s2 \in TreeSlots : IsExactCombine(s1, s2) =>
          /\ err' = ""
          /\ ret'.fail = {}
          /\ HasSet(s1)'
          /\ ExactSet(SetIn(s1)')
          /\ RecordSet(SetIn(s1)') = RecordSet(SetIn(s1)) \cup RecordSet(SetIn(s2))
          /\ SetIn(s2)' = SetIn(s2)]_vars

\* two deserialized states with different records have been combined
C20_Witness ==
    /\ ret.op = "combine"
    /\ err = ""
    /\ HasSet(ret.slot) /\ HasSet(ret.other)
    /\ ExactSet(SetIn(ret.slot)) /\ ExactSet(SetIn(ret.other))
    /\ origin[ret.other] = "deserial"
    /\ SetIn(ret.slot).nall > SetIn(ret.other).nall
    /\ RecordSet(SetIn(ret.slot)) = {DatumBytes(d, typlen) : d \in vals[ret.slot]}

\* the records of the sorted part and of the unsorted part of a set
SortedZone(e) == {e.data[k] : k \in 1..e.nsorted}

PendingZone(e) == {e.data[k] : k \in (e.nsorted + 1)..e.nall}

\* how many times the record r is stored in a set
Occurrences(e, r) == Cardinality({k \in 1..e.nall : e.data[k] = r})

\* c is what compact_set made of e: everything sorted, the same set of
\* records, and a record that was in both parts stored once
CompactionPostcondition(e, c) ==
    /\ c.nsorted = c.nall
    /\ RecordSet(c) = RecordSet(e)
    /\ \A r \in SortedZone(e) \cap PendingZone(e) : Occurrences(c, r) = 1

\* C21: for every state with at least one record, compact_set (need_space
\* true or false; nothing unsorted, no sorted part, or a merge) returns with
\* nsorted = nall and with the set of records the two parts held before, a
\* record that was in both parts being kept once.
C21_CompactionPostcondition ==
    err = "" =>
        \A s \in Slots : (HasSet(s) /\ SetIn(s).nall > 0) =>
            \A ns \in BOOLEAN :
                CompactionPostcondition(SetIn(s), CompactedSet(SetIn(s), ns))

\* the same for the states that no count_distinct_combine has made
CompactionPostconditionNoCombine ==
    err = "" =>
        \A s \in Slots :
            (HasSet(s) /\ SetIn(s).nall > 0
             /\ origin[s] \in {"append", "deserial"}) =>
                \A ns \in BOOLEAN :
                    CompactionPostcondition(SetIn(s), CompactedSet(SetIn(s), ns))

\* the step is a transition call on the existing state of slot s
IsTransitionCall(s) ==
    /\ HasSet(s)
    /\ err' = ""
    /\ ret'.slot = s
    /\ ret'.op \in {"append", "append_null", "elements_append", "elements_append_null"}

\* C22: count_distinct_append and count_distinct_elements_append, given a
\* state, return a state whose set of records includes that of the state
\* given, whatever the second argument is (a value, NULL, an array that is
\* empty or holds NULLs only).
C22_TransitionKeepsState ==
    [][\A s \in Slots : IsTransitionCall(s) =>
          /\ HasSet(s)'
          /\ RecordSet(SetIn(s)) \subseteq RecordSet(SetIn(s)')]_vars

\* the same for every second argument but an array without a value
TransitionWithValueKeepsState ==
    [][\A s \in Slots : (IsTransitionCall(s) /\ ~ret'.isnull) =>
          /\ HasSet(s)'
          /\ RecordSet(SetIn(s)) \subseteq RecordSet(SetIn(s)')]_vars

\* C23: when a count_distinct_append had to compact the set, the next
\* count_distinct_append to the same state does not have to.
C23_NoCompactionThrashing ==
    [][\A s \in Slots :
          (/\ ret.op = "append" /\ ret.slot = s /\ ret.compacted /\ err = ""
           /\ ret'.op = "append" /\ ret'.slot = s /\ ncalls' = ncalls + 1)
              => ~ret'.compacted]_vars

\* C24: on return from compact_set(eset, true), as add_element calls it, at
\* least a fifth of the array is free: 5 * (nbytes - nall * item_size) >= nbytes,
\* nall being one less than after the value was stored
C24_CompactionLeavesFifthFree ==
    \A s \in Slots :
        (/\ ret.op = "append" /\ ret.slot = s /\ ret.compacted /\ err = ""
         /\ HasSet(s))
            => 5 * (SetIn(s).nbytes - (SetIn(s).nall - 1) * SetIn(s).item_size)
                  >= SetIn(s).nbytes

\* the step is a count_distinct_append on slot s that changed the array size
IsResizingAppend(s) ==
    /\ HasSet(s)
    /\ err' = ""
    /\ ret'.op = "append"
    /\ ret'.slot = s
    /\ SetIn(s)'.nbytes # SetIn(s).nbytes

\* C25: when a compaction enlarges the array, the new size is twice the old
\* one if the old one is below ALLOCSET_SEPARATE_THRESHOLD and the old one
\* divided by 0.8 otherwise, and it is greater than the old one.
C25_GrowthPolicy ==
    [][\A s \in Slots : IsResizingAppend(s) =>
          /\ SetIn(s)'.nbytes =
                IF SetIn(s).nbytes < ALLOCSET_SEPARATE_THRESHOLD
                THEN 2 * SetIn(s).nbytes
                ELSE (SetIn(s).nbytes * 5) \div 4
          /\ SetIn(s)'.nbytes > SetIn(s).nbytes]_vars

\* what the code does: an array is doubled if its size divided by 0.8 is
\* below ALLOCSET_SEPARATE_THRESHOLD (the older source: always)
GrowthPolicyOfCode ==
    [][\A s \in Slots : IsResizingAppend(s) =>
          /\ SetIn(s)'.nbytes =
                IF ver = "old" \/ SetIn(s).nbytes * 5 < ALLOCSET_SEPARATE_THRESHOLD * 4
                THEN 2 * SetIn(s).nbytes
                ELSE (SetIn(s).nbytes * 5) \div 4
          /\ SetIn(s)'.nbytes > SetIn(s).nbytes]_vars

\* C26: compact_set(eset, false) leaves nbytes as it is, and
\* compact_set(eset, true) changes nbytes only if less than a fifth of the
\* array is free once the duplicates are removed; this with and without
\* unsorted records at entry.
C26_CapacityChangesOnlyWhenLow ==
    err = "" =>
        \A s \in Slots : (HasSet(s) /\ SetIn(s).nall > 0) =>
            LET plain == CompactedSet(SetIn(s), FALSE)
                grown == CompactedSet(SetIn(s), TRUE)
            IN  /\ plain.nbytes = SetIn(s).nbytes
                /\ grown.nbytes # SetIn(s).nbytes =>
                      5 * (plain.nbytes - plain.nall * plain.item_size) < plain.nbytes

\* a set without unsorted records that compact_set(eset, true) enlarges
C26_Witness ==
    /\ err = ""
    /\ HasSet("A")
    /\ SetIn("A").nall > 0
    /\ SetIn("A").nall = SetIn("A").nsorted
    /\ CompactedSet(SetIn("A"), TRUE).nbytes > SetIn("A").nbytes

\* the step is a count_distinct_append on slot s that found room for the
\* value in the set it was given (or, given no state, in the new set)
IsAppendWithRoom(s) ==
    /\ ~IsNullPointer(state[s])
    /\ ret'.op = "append"
    /\ ret'.slot = s
    /\ err' = ""
    /\ SetOf(state[s]).item_size * (SetOf(state[s]).nall + 1) <= SetOf(state[s]).nbytes

\* C27: an append that finds room stores the value in slot nall (0-based),
\* adds one to nall and leaves nsorted, nbytes, item_size and the records
\* stored before as they are: no compaction took place.
C27_AppendWithRoomOnlyStores ==
    [][\A s \in Slots : IsAppendWithRoom(s) =>
          /\ HasSet(s)'
          /\ SetIn(s)'.nall = SetOf(state[s]).nall + 1
          /\ SetIn(s)'.nsorted = SetOf(state[s]).nsorted
          /\ SetIn(s)'.nbytes = SetOf(state[s]).nbytes
          /\ SetIn(s)'.item_size = SetOf(state[s]).item_size
          /\ \A k \in 1..SetOf(state[s]).nall :
                SetIn(s)'.data[k] = SetOf(state[s]).data[k]
          /\ \E v \in vals'[s] :
                /\ vals'[s] = vals[s] \cup {v}
                /\ SetIn(s)'.data[SetIn(s)'.nall] = DatumBytes(v, SetIn(s)'.item_size)]_vars

\* an append has found room in a set with sorted and unsorted records, some
\* of them equal
C27_Witness ==
    /\ err = ""
    /\ ret.op = "append"
    /\ ret.same
    /\ ~ret.compacted
    /\ HasSet("A")
    /\ SetIn("A").nsorted > 0
    /\ SetIn("A").nall > SetIn("A").nsorted + 1
    /\ Cardinality(RecordSet(SetIn("A"))) < SetIn("A").nall

AppendWroteWithin ==
    ret.op = "append" =>
        /\ err = ""
        /\ "add_element: nbytes >= item_size * (nall + 1)" \notin ret.fail

C30_CombineKeepsSecondOperand ==
    [][\A s1, s2 \in Slots :
          (IsCombineStep(s1, s2) /\ HasSet(s1) /\ HasSet(s2)) =>
              /\ HasSet(s2)'
              /\ SetIn(s2)'.item_size = SetIn(s2).item_size
              /\ RecordSet(SetIn(s2)') = RecordSet(SetIn(s2))
              /\ FinalCount(SetIn(s2)') = FinalCount(SetIn(s2))
              /\ FinalArray(SetIn(s2)') = FinalArray(SetIn(s2))
              /\ SetIn(s2)' = CompactedSet(SetIn(s2), FALSE)
              /\ vals'[s2] = vals[s2]]_vars

\* a combine of two sets has returned, the second one holding several records
C30_Witness ==
    /\ err = ""
    /\ ret.op = "combine"
    /\ HasSet(ret.slot)
    /\ HasSet(ret.other)
    /\ ret.other # ret.slot
    /\ SetIn(ret.other).nall > 1
    /\ SetIn(ret.other).nsorted = SetIn(ret.other).nall
    /\ SetIn(ret.slot).nall > SetIn(ret.other).nall

\* C33: every set made by init_set, count_distinct_deserial or
\* count_distinct_combine has its aggctx set to the aggregation context of
\* the process that runs, and its typalign set to the alignment of the type.
C33_FieldsSetForProcess ==
    \A s \in Slots : (HasSet(s) /\ ver = "new") =>
        /\ SetIn(s).aggctx = proc
        /\ SetIn(s).typalign = TypAlign(SetIn(s).item_size)

\* the same for sets made by init_set and changed by appends, final calls
\* and count_distinct_serial only
FieldsSetByInitSet ==
    \A s \in Slots : (HasSet(s) /\ origin[s] = "append" /\ ver = "new") =>
        /\ SetIn(s).aggctx = proc
        /\ SetIn(s).typalign = TypAlign(SetIn(s).item_size)

\* the merge loop of compact_set on d, the set as the duplicate removal left
\* it
MergeOf(d) ==
    MergeLoop(d.data, 0, d.nsorted, d.nsorted, d.nall, <<>>, d.item_size)

\* the loop of count_distinct_combine on the compacted sets c1 and c2
CombineLoopOf(c1, c2, junk) ==
    CombineLoop(c1.data, c2.data, c1.nbytes, c2.nbytes, c1.item_size, c2.item_size,
                0, c1.nall + c2.nall, 0, 0, <<>>, {}, junk)

\* compact_set on d enters its merge, and then both parts hold records, the
\* loop is left after at least one and at most nsorted + (nall - nsorted)
\* iterations, and neither read pointer is past the end of its part
MergeIsBounded(d) ==
    d.nsorted < d.nall =>
        /\ d.nsorted > 0
        /\ LET m == MergeOf(d)
           IN  /\ m.iters >= 1
               /\ m.iters <= d.nall
               /\ m.a <= d.nsorted
               /\ m.b <= d.nall

\* the loop of count_distinct_combine is not left by elog(ERROR), and its
\* iterations, each of which advances one of the pointers by one record, are
\* nall of the first set plus nall of the second
CombineLoopIsExact(c1, c2, junk) ==
    LET m == CombineLoopOf(c1, c2, junk)
    IN  /\ m.error = ""
        /\ m.ptr1 + (m.ptr2 \div c2.item_size) = c1.nall + c2.nall

\* C32: the merge loop of compact_set is entered only with records in both
\* parts and ends within nsorted + pending iterations, its pointers within
\* their parts; the loop of count_distinct_combine makes exactly
\* nall + nall iterations.
C32_MergeLoopsTerminate ==
    err = "" =>
        /\ \A s \in Slots : (HasSet(s) /\ SetIn(s).nall > 0) =>
              LET d == DedupStep(SetIn(s)) IN MergeIsBounded(d)
        /\ \A s1, s2 \in Slots : (s1 # s2 /\ HasSet(s1) /\ HasSet(s2)) =>
              LET c1 == CompactedSet(SetIn(s1), FALSE)
                  c2 == CompactedSet(SetIn(s2), FALSE)
              IN  \A junk \in JunkBytes : CombineLoopIsExact(c1, c2, junk)

\* two sets, the first with a sorted part and new records that its compaction
\* has to merge
C32_Witness ==
    /\ err = ""
    /\ HasSet("A")
    /\ HasSet("B")
    /\ LET d == DedupStep(SetIn("A"))
       IN  d.nsorted < d.nall /\ MergeOf(d).iters > 1

\* the heap after a call that was given the sets has1 and has2 says and that
\* leaves the sets in1 and in2 say: no access went to an array that was not
\* allocated or was released, no array was released twice, and the arrays
\* still allocated are the one of each set, a different one for each
HeapIsOwned(h, in1, in2) ==
    h.crash \/
    /\ h.bad = {}
    /\ h.live = (IF in1 THEN {h.owner[1]} ELSE {}) \cup (IF in2 THEN {h.owner[2]} ELSE {})
    /\ in1 => h.owner[1] # 0
    /\ in2 => h.owner[2] # 0
    /\ (in1 /\ in2) => h.owner[1] # h.owner[2]

\* the set count_distinct_append works on in slot s
AppendSetOf(s) ==
    IF HasSet(s) THEN SetIn(s) ELSE init_set(typlen, TypAlign(typlen), proc)

AppendHeapOf(s, wild) ==
    HeapAfter(HeapAtCall(HasSet(s), FALSE, proc, wild),
              count_distinct_append_mem(state[s], AppendSetOf(s)), 1)

SerialHeapOf(s, wild) ==
    HeapAfter(HeapAtCall(TRUE, FALSE, proc, wild), count_distinct_serial_mem(SetIn(s)), 1)

DeserialHeapOf(wild) ==
    HeapAfter(HeapAtCall(FALSE, FALSE, proc, wild), count_distinct_deserial_mem, 1)

CombineHeapOf(s1, s2, wild) ==
    HeapAfter(HeapAtCall(HasSet(s1), HasSet(s2), proc, wild),
              count_distinct_combine_mem(state[s1], state[s2]), 1)

\* the calls that can come next on the slots in S keep the arrays owned,
\* whatever an allocation in a wild context does
NextCallsKeepOwnership(S) ==
    \A wild \in WildOutcomes :
        /\ \A s \in S : (state[s].isnull \/ HasSet(s)) =>
              HeapIsOwned(AppendHeapOf(s, wild), TRUE, FALSE)
        /\ \A s \in S : HasSet(s) => HeapIsOwned(SerialHeapOf(s, wild), TRUE, FALSE)
        /\ HeapIsOwned(DeserialHeapOf(wild), TRUE, FALSE)
        /\ \A s1, s2 \in S : s1 # s2 =>
              HeapIsOwned(CombineHeapOf(s1, s2, wild), HasSet(s1) \/ HasSet(s2), HasSet(s2))

\* C31: exclusive ownership of storage. Whatever call comes next in a
\* reachable state (an append to a set or to no state yet, a serialization
\* or a final function, a deserialization, a combine), it reads and writes
\* only arrays that are allocated, it releases the array it replaces exactly
\* once and after its last read of it, and when it returns each set owns
\* exactly one allocated array that no other set owns and no other array is
\* left allocated.
C31_ExclusiveOwnership ==
    (err = "" /\ ver = "new") => NextCallsKeepOwnership(Slots)

\* the same for the sets whose aggctx is the memory context of the aggregate
\* in the running process
OwnershipWithOwnContext ==
    (err = "" /\ ver = "new") =>
        NextCallsKeepOwnership({s \in Slots : HasSet(s) => SetIn(s).aggctx = proc})

\* ------------------------------------------------------------ sanity
TypeOK ==
    /\ err \in STRING
    /\ \A s \in Slots : state[s].isnull \in BOOLEAN

====
